---- MODULE Spec2Model ----
(***************************************************************************)
(* Model of download.py: a script that reads zip_links.txt, downloads      *)
(* every link on a thread pool with per-URL retries and backoff, and zips  *)
(* the downloaded files in groups of BUNDLE_SIZE.                          *)
(*                                                                         *)
(* download.py holds two versions of the script one after the other.  Both *)
(* end with the `if __name__ == "__main__": main()` entry point, so one    *)
(* execution runs the first main() (lines 61-81: fetch and tally) and then *)
(* the second main() (lines 153-183: fetch and bundle).  `run` says which  *)
(* of the two is executing.                                                *)
(***************************************************************************)
EXTENDS Integers, Sequences, FiniteSets, TLC

\* ------------------------------------------------------------- bounds ----
MaxLinks == 2      \* longest link list of the main specification
MaxBody  == 2      \* bodies a server can serve: Body(1) .. Body(MaxBody)
CpuCount == 1      \* what os.cpu_count() reports
PoolLinks == 6     \* length of the link list of the pool specification
MaxFiles == 21     \* longest download list of the bundling specification
MaxLate == 2       \* results as_completed has still to yield, order specification

\* -------------------------------------------------- program constants ----
RETRY == 3
BUNDLE_SIZE == 10
DOWNLOAD_DIR == "downloads"
BUNDLE_DIR == "bundles"

Min(a, b) == IF a < b THEN a ELSE b

\* min(32, (os.cpu_count() or 1) * 5); cpus = 0 stands for None
WorkersFor(cpus) == Min(32, (IF cpus = 0 THEN 1 ELSE cpus) * 5)
WORKERS == WorkersFor(CpuCount)

\* A URL is the sequence of its path components as pathlib splits them.
\* Path(url).name is the last component, "" when there is none.
PathName(url) == IF Len(url) = 0 THEN "" ELSE url[Len(url)]

\* fname = Path(url).name or "download.zip"
Fname(url) == IF PathName(url) = "" THEN "download.zip" ELSE PathName(url)

\* requests sends a URL that has a scheme and a host and raises
\* MissingSchema or InvalidURL for the others
Valid(url) == Len(url) >= 2

\* The k-th URL of a list of URLs with pairwise distinct file names.
UrlOf(k) == <<"http:", "host", ToString(k) \o ".zip">>

\* URLs of the main specification: two with a file name; one without,
\* the line "/"
Urls == {UrlOf(1), UrlOf(2), <<>>}

\* Lines of zip_links.txt.
Link(u) == [kind |-> "link", url |-> u]
Blank == [kind |-> "blank", url |-> <<>>]
Comment == [kind |-> "comment", url |-> <<>>]

\* the test without `not line.startswith("#")`: only empty lines are dropped
IsLinkOrComment(line) == line.kind # "blank"

\* read_links: the stripped lines that are neither empty nor comments
IsLink(line) == line.kind = "link"
RECURSIVE ReadLinks(_)
ReadLinks(lines) ==
  IF lines = <<>> THEN <<>>
  ELSE (IF IsLink(Head(lines)) THEN <<Head(lines).url>> ELSE <<>>)
       \o ReadLinks(Tail(lines))

\* What a server serves: Body(v) is v chunks, each of content v.
Body(v) == [j \in 1..v |-> v]
Bodies == {Body(v) : v \in 1..MaxBody}

\* A chunk position of a file that was never written (a hole left by a
\* write past a truncation).
Hole == 0

\* Ways an attempt can fail, all subclasses of Exception.
ConnectFailures == {"invalidurl", "transport", "status", "timeout", "oserror"}
StreamFailures == {"transport", "timeout", "oserror"}

VARIABLES
  linksFile,   \* zip_links.txt: [exists, lines]
  dirs,        \* directories that exist
  files,       \* downloads/: file name -> sequence of chunks
  run,         \* 1: the first main() is executing, 2: the second
  pc,          \* where main() is
  links,       \* list(read_links(LINKS_FILE))
  task,        \* one future per submitted link: [st, attempt, body, sent]
  server,      \* per link, the environment: [bodies, faulty]
  pending,     \* as_completed: futures finished at the call, not yet yielded
  ready,       \* as_completed: waiter.finished_futures, in completion order
  collected,   \* futures whose result main() has taken
  nresults,    \* how many results main() has taken
  ok,          \* first main(): success counter
  downloaded,  \* second main(): local paths, in the order results were taken
  groups,      \* second main(): `bundles`, the chunks of `downloaded`
  archives,    \* bundles/: index -> member names of bundle-<index>.zip
  submits,     \* per link: futures submitted for it in this execution
  tries,       \* per link: attempts made for it in this execution
  exit,        \* how the process ended: "" while running
  out,         \* what the print calls have reported so far
  finished,    \* second main(): the downloads that returned a path, in
               \* the order they returned
  writer       \* per target file: who touched it last, and whether only
               \* the thread that opened it last has written to it since

envVars == <<linksFile, server>>
fsVars == <<dirs, files, archives>>
poolVars == <<task, pending, ready, submits, tries>>
mainVars == <<run, pc, links, collected, nresults, ok, downloaded, groups, exit>>
obsVars == <<out, finished, writer>>
vars == <<linksFile, dirs, files, run, pc, links, task, server, pending, ready,
          collected, nresults, ok, downloaded, groups, archives, submits,
          tries, exit, out, finished, writer>>

\* ------------------------------------------------------- file system ----
Max(a, b) == IF a > b THEN a ELSE b

Put(f, n, c) == [x \in DOMAIN f \cup {n} |-> IF x = n THEN c ELSE f[x]]

\* open(target, "r+b") or os.open without O_TRUNC: create, never truncate
OpenNoTrunc(f, n) == IF n \in DOMAIN f THEN f ELSE Put(f, n, <<>>)

\* open(target, "wb"): create or truncate
OpenWb(f, n) == Put(f, n, <<>>)

\* f.write(chunk) through a handle whose offset is pos - 1 chunks
WriteAt(content, pos, chunk) ==
  [j \in 1..Max(Len(content), pos) |->
     IF j = pos THEN chunk
     ELSE IF j <= Len(content) THEN content[j] ELSE Hole]

\* ------------------------------------------------------------ _fetch ----
NewTask == [st |-> "pending", attempt |-> 0, body |-> <<>>, sent |-> 0, sleeps |-> <<>>]

\* a future is finished: _fetch returned (url, target), returned (url, None),
\* raised, or fell out of its loop and returned None
Terminal(t) == t.st \in {"ok", "failed", "raised", "none"}

\* a thread counted as idle while it sleeps between two attempts
BusyNotSleeping(t) == {i \in DOMAIN t : t[i].st \in {"get", "stream"}}

\* futures the pool has handed to a worker thread and that have not returned
Busy(t) == {i \in DOMAIN t : t[i].st \in {"get", "stream", "wait"}}

\* the pool's test off by one: a thread is added while there are WORKERS
PoolHasRoomForOneMore(t) == Cardinality(Busy(t)) <= WORKERS

\* ThreadPoolExecutor(max_workers=WORKERS): a queued work item is taken
\* only by one of at most WORKERS threads, each running one item at a time
PoolHasIdleWorker(t) == Cardinality(Busy(t)) < WORKERS

\* the work queue is FIFO: the next item is the first one not yet taken
NextQueued(t) ==
  IF \E i \in DOMAIN t : t[i].st = "pending"
  THEN {CHOOSE i \in DOMAIN t :
          /\ t[i].st = "pending"
          /\ \A j \in DOMAIN t : t[j].st = "pending" => i <= j}
  ELSE {}

\* a narrower clause, `except requests.RequestException`, lets OSError through
CatchesRequestErrorsOnly(kind) == kind # "oserror"

\* except Exception as e:
Catches(kind) == TRUE

\* the test one attempt early: `if attempt == RETRY - 1`
LastAttemptEarly(attempt) == attempt = RETRY - 1

\* the test one attempt late: `if attempt == RETRY + 1`
LastAttemptLate(attempt) == attempt = RETRY + 1

\* the except clause without its `if attempt == RETRY: return ...`
LastAttemptNever(attempt) == FALSE

\* if attempt == RETRY:
LastAttempt(attempt) == attempt = RETRY

\* the exponent counted from 0: time.sleep(2 ** (attempt - 1))
BackoffFromZero(attempt) == 2 ^ (attempt - 1)

\* time.sleep(2 ** attempt): the seconds slept after a failed attempt
Backoff(attempt) == 2 ^ attempt

\* the except clause: give up, or sleep and go round the loop again
OnError(t, kind) ==
  IF ~Catches(kind)
  THEN [t EXCEPT !.st = "raised", !.body = <<>>, !.sent = 0]
  ELSE IF LastAttempt(t.attempt)
       THEN [t EXCEPT !.st = "failed", !.body = <<>>, !.sent = 0]
       ELSE [t EXCEPT !.st = "wait", !.body = <<>>, !.sent = 0,
                      !.sleeps = Append(@, Backoff(t.attempt))]

\* the completion order is recorded for the downloads of the second main()
\* that return (url, target), in executions of at most MaxLinks links
Recorded(t) == run = 2 /\ t.st = "ok" /\ Len(links) <= MaxLinks

\* a future finishes: it goes to the waiter's finished_futures when
\* as_completed is waiting, and to the end of the completion order
Notify(i, t) ==
  /\ ready' = IF pc = "collect" /\ Terminal(t) THEN Append(ready, i) ELSE ready
  /\ finished' = IF Recorded(t) THEN Append(finished, i) ELSE finished

\* the second _fetch: print(f"下载失败 {url} : {e}") before return url, None
ReportFailure(t) ==
  out' = IF run = 2 /\ t.st = "failed"
         THEN [out EXCEPT !.failed[2] = @ + 1]
         ELSE out

\* open(target, "wb") by thread i: the file starts afresh as i's
Opened(w, n, i) == Put(w, n, [last |-> i, clean |-> TRUE])

\* f.write by thread i: the file is no more the work of one thread when
\* the last to touch it was another
Written(w, n, i) ==
  IF w[n].last = i THEN w ELSE Put(w, n, [last |-> i, clean |-> FALSE])

\* a worker thread takes the next work item and enters the loop, attempt 1
Start(i) ==
  /\ i \in NextQueued(task)
  /\ PoolHasIdleWorker(task)
  /\ task' = [task EXCEPT ![i].st = "get", ![i].attempt = 1]
  /\ tries' = [tries EXCEPT ![i] = @ + 1]
  /\ UNCHANGED <<envVars, fsVars, mainVars, obsVars, pending, ready, submits>>

\* session.get, raise_for_status, mkdir, open(target, "wb")
Connect(i) ==
  /\ i \in DOMAIN task
  /\ task[i].st = "get"
  /\ \/ \E b \in server[i].bodies :
          /\ Valid(links[i])
          /\ task' = [task EXCEPT ![i].st = "stream", ![i].body = b]
          /\ files' = OpenWb(files, Fname(links[i]))
          /\ writer' = Opened(writer, Fname(links[i]), i)
          /\ UNCHANGED <<ready, finished, out>>
     \/ \E kind \in ConnectFailures :
          /\ IF Valid(links[i])
             THEN kind # "invalidurl" /\ server[i].faulty
             ELSE kind = "invalidurl"
          /\ task' = [task EXCEPT ![i] = OnError(@, kind)]
          /\ Notify(i, task'[i])
          /\ ReportFailure(task'[i])
          /\ UNCHANGED <<files, writer>>
  /\ UNCHANGED <<envVars, dirs, archives, mainVars, pending, submits, tries>>

\* one round of `for chunk in r.iter_content`: f.write(chunk); after the
\* last chunk the with blocks close and _fetch returns (url, target)
WriteChunk(i) ==
  /\ i \in DOMAIN task
  /\ task[i].st = "stream"
  /\ LET t == task[i]
         n == Fname(links[i])
     IN \/ /\ files' = Put(files, n, WriteAt(files[n], t.sent + 1, t.body[t.sent + 1]))
           /\ task' = [task EXCEPT ![i].sent = t.sent + 1,
                                   ![i].st = IF t.sent + 1 = Len(t.body)
                                             THEN "ok" ELSE "stream"]
           /\ writer' = Written(writer, n, i)
           /\ Notify(i, task'[i])
           /\ UNCHANGED out
        \/ \E kind \in StreamFailures :
             /\ server[i].faulty
             /\ task' = [task EXCEPT ![i] = OnError(@, kind)]
             /\ Notify(i, task'[i])
             /\ ReportFailure(task'[i])
             /\ UNCHANGED <<files, writer>>
  /\ UNCHANGED <<envVars, dirs, archives, mainVars, pending, submits, tries>>

\* for attempt in range(1, RETRY + 1):
InRange(attempt) == attempt \in 1..RETRY

\* time.sleep(2 ** attempt) returns; the loop goes to the next attempt, or
\* ends when the range is used up and _fetch returns None
Wake(i) ==
  /\ i \in DOMAIN task
  /\ task[i].st = "wait"
  /\ IF InRange(task[i].attempt + 1)
     THEN /\ task' = [task EXCEPT ![i].st = "get", ![i].attempt = @ + 1]
          /\ tries' = [tries EXCEPT ![i] = @ + 1]
     ELSE /\ task' = [task EXCEPT ![i].st = "none"]
          /\ UNCHANGED tries
  /\ Notify(i, task'[i])
  /\ UNCHANGED <<envVars, fsVars, mainVars, pending, submits, out, writer>>

\* -------------------------------------------------------- bundling ----
\* range(0, total, BUNDLE_SIZE)
Range(total) == {i \in 0..(total - 1) : i % BUNDLE_SIZE = 0}

\* s[a:b-1]: the slice one element short
SliceShort(s, a, b) == SubSeq(s, a + 1, Min(b - 1, Len(s)))

\* s[a:b]
Slice(s, a, b) == SubSeq(s, a + 1, Min(b, Len(s)))

\* [downloaded[i:i+BUNDLE_SIZE] for i in range(0, total, BUNDLE_SIZE)]
Chunks(d) ==
  [k \in 1..Cardinality(Range(Len(d))) |->
     Slice(d, (k - 1) * BUNDLE_SIZE, (k - 1) * BUNDLE_SIZE + BUNDLE_SIZE)]

\* enumerate(bundles): the index counted from 0
EnumIndexFromZero(p) == p - 1

\* enumerate(bundles, 1): the index that goes with the p-th group
EnumIndex(p) == p

\* zf.write(f, arcname=f.name) for every f of the group: the archive holds
\* each member's name and the content the file has when it is read
Members(group, f) ==
  [j \in 1..Len(group) |-> [name |-> group[j], data |-> f[group[j]]]]

\* ------------------------------------------------------------- main ----
\* main() returns: the first main() is followed by the second definition
\* of everything and the second entry point; the second one ends the script
Return ==
  IF run = 1
  THEN /\ run' = 2
       /\ pc' = "main"
       /\ exit' = exit
  ELSE /\ run' = run
       /\ pc' = "done"
       /\ exit' = "ok"

\* read_links with `return` where it has sys.exit(1): a missing file reads
\* as a file without links
ExitsNever(file) == FALSE

\* read_links: if not Path(path).is_file(): print(...); sys.exit(1)
Exits(file) == ~file.exists

\* DOWNLOAD_DIR.mkdir(exist_ok=True); links = list(read_links(LINKS_FILE));
\* if not links: return
MainStart ==
  /\ pc = "main"
  /\ dirs' = dirs \cup {DOWNLOAD_DIR}
  /\ IF Exits(linksFile)
     THEN /\ pc' = "exit"
          /\ exit' = "exit(1)"
          /\ UNCHANGED <<run, links>>
     ELSE /\ links' = ReadLinks(linksFile.lines)
          /\ IF links' = <<>>
             THEN Return
             ELSE /\ pc' = "submit"
                  /\ UNCHANGED <<run, exit>>
  /\ task' = <<>>
  /\ pending' = {}
  /\ ready' = <<>>
  /\ collected' = {}
  /\ nresults' = 0
  /\ finished' = <<>>
  /\ writer' = <<>>
  /\ UNCHANGED <<envVars, files, archives, ok, downloaded, groups, submits, tries, out>>

\* with ThreadPoolExecutor(max_workers=WORKERS) as pool:
\*     future_to_url = {pool.submit(_fetch, url, DOWNLOAD_DIR): url for url in links}
SubmitAll ==
  /\ pc = "submit"
  /\ task' = [i \in 1..Len(links) |-> NewTask]
  /\ submits' = [i \in DOMAIN submits |-> submits[i] + 1]
  /\ pc' = "pool"
  /\ UNCHANGED <<envVars, fsVars, obsVars, run, links, pending, ready, collected,
                 nresults, ok, downloaded, groups, tries, exit>>

\* as_completed(future_to_url) is called: the futures already finished are
\* put in a set, a waiter is installed on the others
AsCompleted ==
  /\ pc = "pool"
  /\ pending' = {i \in DOMAIN task : Terminal(task[i])}
  /\ ready' = <<>>
  /\ pc' = "collect"
  /\ UNCHANGED <<envVars, fsVars, obsVars, run, links, task, collected, nresults, ok,
                 downloaded, groups, submits, tries, exit>>

\* as_completed whose waiter is never woken: only the futures finished at
\* the call are yielded
YieldableSetOnly == pending

\* what as_completed can yield next: any future of the set of those that
\* were finished at the call; once that set is used up, the oldest of
\* finished_futures
Yieldable ==
  IF pending # {} THEN pending
  ELSE IF ready # <<>> THEN {Head(ready)} ELSE {}

\* fut.result() gives a pair to unpack: _fetch neither raised nor returned
\* a bare None
Returned(t) == t.st \in {"ok", "failed"}

\* `if local_path is not None or True`: every result counts as a success
SucceededAlways(t) == TRUE

\* the test inverted: `if not local_path`
SucceededInverted(t) == t.st # "ok"

\* if success: / if local_path:
Succeeded(t) == t.st = "ok"

\* one round of `for fut in as_completed(...)`: fut.result() and the body
Collect(i) ==
  /\ pc = "collect"
  /\ i \in Yieldable
  /\ pending' = pending \ {i}
  /\ ready' = IF pending # {} THEN ready ELSE Tail(ready)
  /\ collected' = collected \cup {i}
  /\ nresults' = nresults + 1
  /\ IF ~Returned(task[i])
     THEN /\ pc' = "crashed"
          /\ exit' = "traceback"
          /\ UNCHANGED <<ok, downloaded, out>>
     ELSE /\ UNCHANGED <<pc, exit>>
          /\ IF run = 1
             THEN /\ ok' = IF Succeeded(task[i]) THEN ok + 1 ELSE ok
                  /\ out' = IF Succeeded(task[i]) THEN out
                            ELSE [out EXCEPT !.failed[1] = @ + 1]
                  /\ UNCHANGED downloaded
             ELSE /\ downloaded' = IF Succeeded(task[i])
                                   THEN Append(downloaded, Fname(links[i]))
                                   ELSE downloaded
                  /\ UNCHANGED <<ok, out>>
  /\ UNCHANGED <<envVars, fsVars, run, links, task, groups, submits, tries,
                 finished, writer>>

\* the loop is left at the first result and the pool is not joined
\* (`break`, shutdown(wait=False))
FetchFinishedAtFirst == nresults >= 1

\* as_completed is exhausted and the with block has joined the workers
FetchFinished ==
  /\ nresults = Len(links)
  /\ \A i \in DOMAIN task : Terminal(task[i])

\* the second main() without its `if total == 0: return`, the chunks
\* counted as total // BUNDLE_SIZE + 1
EndFetchNoReturn ==
  /\ pc = "collect"
  /\ FetchFinished
  /\ IF run = 1
     THEN /\ Return
          /\ out' = [out EXCEPT !.tally = <<ok, Len(links)>>]
          /\ UNCHANGED groups
     ELSE /\ groups' = [k \in 1..(Len(downloaded) \div BUNDLE_SIZE + 1) |->
                         Slice(downloaded, (k - 1) * BUNDLE_SIZE, k * BUNDLE_SIZE)]
          /\ pc' = "bundle"
          /\ UNCHANGED <<run, exit, out>>
  /\ UNCHANGED <<envVars, fsVars, links, poolVars, collected, nresults, ok,
                 downloaded, finished, writer>>

\* after the with block.  First main(): print the tally ok/len(links) and
\* return.  Second main(): total = len(downloaded); if it is 0 print that
\* nothing was downloaded and return, else chunk
EndFetch ==
  /\ pc = "collect"
  /\ FetchFinished
  /\ IF run = 1
     THEN /\ Return
          /\ out' = [out EXCEPT !.tally = <<ok, Len(links)>>]
          /\ UNCHANGED groups
     ELSE IF Len(downloaded) = 0
          THEN /\ Return
               /\ out' = [out EXCEPT !.summary = <<0, 0>>]
               /\ UNCHANGED groups
          ELSE /\ groups' = Chunks(downloaded)
               /\ pc' = "bundle"
               /\ UNCHANGED <<run, exit, out>>
  /\ UNCHANGED <<envVars, fsVars, links, poolVars, collected, nresults, ok,
                 downloaded, finished, writer>>

\* one round of `for idx, group in enumerate(bundles, 1)`: create_bundle;
\* after the last round main() prints the number of files and of bundles
\* and returns
CreateBundle ==
  /\ pc = "bundle"
  /\ LET p == Cardinality(DOMAIN archives) + 1
         group == groups[p]
     IN /\ dirs' = dirs \cup {BUNDLE_DIR}
        /\ IF \A j \in 1..Len(group) : group[j] \in DOMAIN files
           THEN /\ archives' = Put(archives, EnumIndex(p), Members(group, files))
                /\ IF p = Len(groups)
                   THEN /\ Return
                        /\ out' = [out EXCEPT !.summary = <<Len(downloaded), Len(groups)>>]
                   ELSE UNCHANGED <<run, pc, exit, out>>
           ELSE /\ pc' = "crashed"
                /\ exit' = "traceback"
                /\ UNCHANGED <<run, archives, out>>
  /\ UNCHANGED <<envVars, files, links, poolVars, collected, nresults, ok,
                 downloaded, groups, finished, writer>>

\* ------------------------------------------------------ specification ----
Missing == [exists |-> FALSE, lines |-> <<>>]

AsFile(l) == [exists |-> TRUE, lines |-> [j \in 1..Len(l) |-> Link(l[j])]]

LinkLists(n) == UNION {[1..k -> Urls] : k \in 0..n}

InputFiles ==
  {Missing} \cup {AsFile(l) : l \in LinkLists(MaxLinks)}
  \cup {[exists |-> TRUE, lines |-> <<Comment, Blank>>],
        [exists |-> TRUE, lines |-> <<Comment, Link(UrlOf(1)), Blank>>]}

\* nothing printed yet: no tally (first main), no summary (second main),
\* no URL reported as failed by either
NoOutput == [tally |-> <<>>, summary |-> <<>>, failed |-> [r \in 1..2 |-> 0]]

InitWith(file, srv) ==
  /\ linksFile = file
  /\ server = srv
  /\ dirs = {}
  /\ files = <<>>
  /\ archives = <<>>
  /\ run = 1
  /\ pc = "main"
  /\ links = <<>>
  /\ task = <<>>
  /\ pending = {}
  /\ ready = <<>>
  /\ collected = {}
  /\ nresults = 0
  /\ ok = 0
  /\ downloaded = <<>>
  /\ groups = <<>>
  /\ submits = [i \in 1..Len(ReadLinks(file.lines)) |-> 0]
  /\ tries = [i \in 1..Len(ReadLinks(file.lines)) |-> 0]
  /\ exit = ""
  /\ out = NoOutput
  /\ finished = <<>>
  /\ writer = <<>>

\* every server can fail and can serve any body
AnyServer(file) ==
  [i \in 1..Len(ReadLinks(file.lines)) |-> [bodies |-> Bodies, faulty |-> TRUE]]

Init == \E file \in InputFiles : InitWith(file, AnyServer(file))

\* The pool specification: more links than workers, distinct file names.
\* One server can fail; the others serve Body(1) at the first attempt.
PoolFile == AsFile([k \in 1..PoolLinks |-> UrlOf(k)])

Reliable == [bodies |-> {Body(1)}, faulty |-> FALSE]
Unreliable == [bodies |-> {Body(1)}, faulty |-> TRUE]

\* a server that fails every request
Dead == [bodies |-> {}, faulty |-> TRUE]

\* The executions of the fair specification: more links than workers, the
\* first server dead and the others reliable; one link whose server can
\* fail and can serve any body; a missing file.
InitLive ==
  \/ InitWith(PoolFile, [i \in 1..PoolLinks |-> IF i = 1 THEN Dead ELSE Reliable])
  \/ \E file \in {Missing, AsFile(<<UrlOf(1)>>)} : InitWith(file, AnyServer(file))

InitPool ==
  \E f \in {1} :
    InitWith(PoolFile, [i \in 1..PoolLinks |-> IF i = f THEN Unreliable ELSE Reliable])

Next ==
  \/ MainStart
  \/ SubmitAll
  \/ \E i \in 1..Len(links) : Start(i)
  \/ \E i \in 1..Len(links) : Connect(i)
  \/ \E i \in 1..Len(links) : WriteChunk(i)
  \/ \E i \in 1..Len(links) : Wake(i)
  \/ AsCompleted
  \/ \E i \in 1..Len(links) : Collect(i)
  \/ EndFetch
  \/ CreateBundle

Spec == Init /\ [][Next]_vars

SpecPool == InitPool /\ [][Next]_vars

\* The bundling specification: the second main() has taken the last result
\* of a fetch stage whose first k links failed at every connection and
\* whose other links succeeded at once, in the order of the list; the
\* first main() had met the same.
InitBundle ==
  \E n \in 1..MaxFiles : \E k \in 0..n :
    LET l == [i \in 1..n |-> UrlOf(i)]
    IN /\ linksFile = AsFile(l)
       /\ server = AnyServer(AsFile(l))
       /\ dirs = {DOWNLOAD_DIR}
       /\ files = [x \in {Fname(l[i]) : i \in (k + 1)..n} |-> Body(1)]
       /\ archives = <<>>
       /\ run = 2
       /\ pc = "collect"
       /\ links = l
       /\ task = [i \in 1..n |->
                   IF i <= k
                   THEN [st |-> "failed", attempt |-> RETRY, body |-> <<>>, sent |-> 0,
                         sleeps |-> [a \in 1..(RETRY - 1) |-> Backoff(a)]]
                   ELSE [st |-> "ok", attempt |-> 1, body |-> Body(1), sent |-> 1,
                         sleeps |-> <<>>]]
       /\ pending = {}
       /\ ready = <<>>
       /\ collected = 1..n
       /\ nresults = n
       /\ ok = n - k
       /\ downloaded = [j \in 1..(n - k) |-> Fname(l[k + j])]
       /\ groups = <<>>
       /\ submits = [i \in 1..n |-> 2]
       /\ tries = [i \in 1..n |-> IF i <= k THEN 2 * RETRY ELSE 2]
       /\ exit = ""
       /\ out = [tally |-> <<n - k, n>>, summary |-> <<>>,
                 failed |-> [r \in 1..2 |-> k]]
       /\ finished = [j \in 1..(n - k) |-> k + j]
       /\ writer = [x \in {Fname(l[i]) : i \in (k + 1)..n} |->
                      [last |-> CHOOSE i \in (k + 1)..n : Fname(l[i]) = x,
                       clean |-> TRUE]]

NextBundle ==
  \/ EndFetch
  \/ CreateBundle

SpecBundle == InitBundle /\ [][NextBundle]_vars

\* The order specification: as InitBundle, all downloads having finished in
\* the order of the list, but the second main() has still to take the
\* results of the last c links: the first p of them had finished when
\* as_completed was called, the others finished after it.
InitOrder ==
  \E n \in 1..MaxFiles : \E k \in 0..n : \E c \in 0..Min(MaxLate, n - k) : \E p \in 0..c :
    LET l == [i \in 1..n |-> UrlOf(i)]
    IN /\ linksFile = AsFile(l)
       /\ server = AnyServer(AsFile(l))
       /\ dirs = {DOWNLOAD_DIR}
       /\ files = [x \in {Fname(l[i]) : i \in (k + 1)..n} |-> Body(1)]
       /\ archives = <<>>
       /\ run = 2
       /\ pc = "collect"
       /\ links = l
       /\ task = [i \in 1..n |->
                   IF i <= k
                   THEN [st |-> "failed", attempt |-> RETRY, body |-> <<>>, sent |-> 0,
                         sleeps |-> [a \in 1..(RETRY - 1) |-> Backoff(a)]]
                   ELSE [st |-> "ok", attempt |-> 1, body |-> Body(1), sent |-> 1,
                         sleeps |-> <<>>]]
       /\ pending = (n - c + 1)..(n - c + p)
       /\ ready = [j \in 1..(c - p) |-> n - c + p + j]
       /\ collected = 1..(n - c)
       /\ nresults = n - c
       /\ ok = n - k
       /\ downloaded = [j \in 1..(n - k - c) |-> Fname(l[k + j])]
       /\ groups = <<>>
       /\ submits = [i \in 1..n |-> 2]
       /\ tries = [i \in 1..n |-> IF i <= k THEN 2 * RETRY ELSE 2]
       /\ exit = ""
       /\ out = [tally |-> <<n - k, n>>, summary |-> <<>>,
                 failed |-> [r \in 1..2 |-> k]]
       /\ finished = [j \in 1..(n - k) |-> k + j]
       /\ writer = [x \in {Fname(l[i]) : i \in (k + 1)..n} |->
                      [last |-> CHOOSE i \in (k + 1)..n : Fname(l[i]) = x,
                       clean |-> TRUE]]

NextOrder ==
  \/ \E i \in 1..Len(links) : Collect(i)
  \/ EndFetch
  \/ CreateBundle

SpecOrder == InitOrder /\ [][NextOrder]_vars

\* The fair specification.  The main thread runs whenever it can; a worker
\* thread takes a queued item when it is idle, every attempt of a task ends
\* (TIMEOUT bounds a request) and every time.sleep returns.
MainStep ==
  \/ MainStart
  \/ SubmitAll
  \/ AsCompleted
  \/ \E i \in 1..Len(links) : Collect(i)
  \/ EndFetch
  \/ CreateBundle

WorkerStep(i) == Start(i) \/ Connect(i) \/ WriteChunk(i) \/ Wake(i)

Fairness ==
  /\ WF_vars(MainStep)
  /\ \A i \in 1..PoolLinks : WF_vars(WorkerStep(i))

SpecLive == InitLive /\ [][Next]_vars /\ Fairness

\* --------------------------------------------------------- properties ----
\* the fetch stage of the main() that is executing, or of the first main()
\* when the second has not read the links yet, is over
FetchOver ==
  /\ links # <<>>
  /\ pc \in {"bundle", "done"} \/ (run = 2 /\ pc = "main")

\* no two links map to the same file name
DistinctNames ==
  \A i, j \in 1..Len(links) : Fname(links[i]) = Fname(links[j]) => i = j

OkTasks == {i \in DOMAIN task : task[i].st = "ok"}
FailedTasks == {i \in DOMAIN task : task[i].st = "failed"}

\* C1: the fetch stage yields exactly one result per input URL, a success
\* with a path or a failure: every future ends with a pair, no future is
\* taken twice, and when the stage is over the results taken are those of
\* all the links, duplicates of a URL included.
C1_OneResultPerUrl ==
  /\ \A i \in DOMAIN task : Terminal(task[i]) => Returned(task[i])
  /\ nresults = Cardinality(collected)
  /\ FetchOver =>
       /\ DOMAIN task = 1..Len(links)
       /\ collected = 1..Len(links)
       /\ nresults = Len(links)
       /\ Cardinality(OkTasks) + Cardinality(FailedTasks) = Len(links)
       /\ run = 2 /\ pc # "main" => Len(downloaded) = Cardinality(OkTasks)

\* the fetch stage is over for a list that names the same URL twice, one
\* copy succeeded and the other failed
C1_Witness ==
  /\ FetchOver
  /\ Len(links) = 2
  /\ links[1] = links[2]
  /\ run = 2
  /\ task[1].st = "ok"
  /\ task[2].st = "failed"

\* C2: a URL is recorded as failed only after exactly RETRY attempts of its
\* attempt cycle: never fewer, never more.
C2_FailedAfterRetryAttempts ==
  \A i \in DOMAIN task :
    /\ task[i].attempt <= RETRY
    /\ task[i].st = "failed" => task[i].attempt = RETRY
    /\ task[i].st = "failed" /\ run = 1 /\ pc # "main" => tries[i] = RETRY

\* a URL failed, in the first main(), after RETRY attempts
C2_Witness ==
  \E i \in DOMAIN task :
    task[i].st = "failed" /\ task[i].attempt = RETRY /\ run = 1 /\ tries[i] = RETRY

\* a successful future: its attempt k served a whole body and, when no
\* other link maps to its file name, the file at its target path holds
\* exactly that body
OkHoldsServedBody ==
  \A i \in DOMAIN task :
    task[i].st = "ok" =>
      /\ task[i].attempt \in 1..RETRY
      /\ task[i].sent = Len(task[i].body)
      /\ task[i].body \in Bodies
      /\ run = 1 /\ pc # "main" => tries[i] = task[i].attempt
      /\ DistinctNames => /\ Fname(links[i]) \in DOMAIN files
                          /\ files[Fname(links[i])] = task[i].body

\* a future becomes a success only from an attempt that was streaming, at
\* the attempt number it had, and a successful future makes no further
\* attempt: it stays as it is and its link's attempt count stays
OkIsFinal ==
  \A i \in DOMAIN task \cap DOMAIN task' :
    /\ task[i].st # "ok" /\ task'[i].st = "ok" =>
         /\ task[i].st = "stream"
         /\ task'[i].attempt = task[i].attempt
         /\ tries'[i] = tries[i]
    /\ task[i].st = "ok" => task'[i] = task[i] /\ tries'[i] = tries[i]

\* C3: a URL whose attempt k succeeds after k-1 failures is a success after
\* exactly k attempts, no further attempt is made for it, and, when no
\* other link maps to its file name, the file at its target path holds
\* exactly the body attempt k served.
C3_SuccessKeepsServedBody == []OkHoldsServedBody /\ [][OkIsFinal]_vars

\* a URL succeeded on its last attempt, in the second main(), and its file
\* holds the short body
C3_Witness ==
  \E i \in DOMAIN task :
    /\ DistinctNames
    /\ task[i].st = "ok"
    /\ task[i].attempt = RETRY
    /\ task[i].body = Body(1)
    /\ files[Fname(links[i])] = Body(1)
    /\ run = 2

\* C4: a failed attempt, whatever the failure, is retried while attempts
\* remain and else recorded as a failure; nothing propagates out of the
\* fetch stage, and the other URLs reach their own terminal results.
C4_FailuresContained ==
  /\ exit # "traceback"
  /\ pc # "crashed"
  /\ \A i \in DOMAIN task :
       /\ task[i].st \notin {"raised", "none"}
       /\ task[i].st = "wait" => task[i].attempt < RETRY
  /\ FetchOver => \A i \in DOMAIN task : task[i].st \in {"ok", "failed"}

\* the fetch stage is over, one URL exhausted its retries and another
\* succeeded
C4_Witness ==
  /\ FetchOver
  /\ \E i, j \in DOMAIN task : task[i].st = "failed" /\ task[j].st = "ok"
  /\ run = 2
  /\ pc = "done"

\* ceil(n / g)
CeilDiv(n, g) == (n + g - 1) \div g

\* C5: N downloaded files give ceil(N / BUNDLE_SIZE) archives, numbered from
\* 1; all but the last hold BUNDLE_SIZE files, the last N mod BUNDLE_SIZE
\* if that is not zero and else BUNDLE_SIZE; the members of archives 1, 2,
\* ... read in order are the downloaded files, each once.
C5_BundleSizes ==
  run = 2 /\ pc = "done" /\ downloaded # <<>> =>
    LET N == Len(downloaded)
        G == BUNDLE_SIZE
        nb == CeilDiv(N, G)
    IN /\ DOMAIN archives = 1..nb
       /\ \A k \in 1..(nb - 1) : Len(archives[k]) = G
       /\ Len(archives[nb]) = IF N % G # 0 THEN N % G ELSE G
       /\ \A j \in 1..N :
            archives[((j - 1) \div G) + 1][((j - 1) % G) + 1].name = downloaded[j]

\* more than two full groups and a partial last one have been archived
C5_Witness ==
  /\ pc = "done"
  /\ Len(downloaded) > 2 * BUNDLE_SIZE
  /\ Len(downloaded) % BUNDLE_SIZE # 0
  /\ Cardinality(DOMAIN archives) = 3
  /\ Len(archives[3]) = Len(downloaded) % BUNDLE_SIZE

\* C6: no archive is planned or written while a URL is pending, attempting
\* or in backoff, and a fetch stage is left only when all are terminal.
C6_BundlingAfterFetch ==
  /\ pc = "bundle" \/ groups # <<>> \/ archives # <<>> \/ BUNDLE_DIR \in dirs
       => \A i \in DOMAIN task : Terminal(task[i])
  /\ FetchOver =>
       /\ DOMAIN task = 1..Len(links)
       /\ \A i \in DOMAIN task : Terminal(task[i])

\* an archive is being written after a fetch stage of two URLs
C6_Witness ==
  /\ pc = "bundle"
  /\ Len(links) = 2
  /\ Len(downloaded) = 2

\* futures that are attempting a download or hold an open target file
InFlight == {i \in DOMAIN task : task[i].st \in {"get", "stream"}}

\* C7: at every moment at most WORKERS URLs are in flight, and at most
\* WORKERS hold a worker.
C7_AtMostWorkersInFlight ==
  /\ Cardinality(InFlight) <= WORKERS
  /\ Cardinality(Busy(task)) <= WORKERS

\* WORKERS URLs are in flight and the last link is still queued
C7_Witness ==
  /\ Cardinality(InFlight) = WORKERS
  /\ Len(links) > WORKERS
  /\ task[Len(links)].st = "pending"

\* every member of every archive is the file of a successful URL and holds
\* the whole body that URL's successful attempt served
BundledFilesComplete ==
  /\ Len(downloaded) = Cardinality(OkTasks)
  /\ \A j \in 1..Len(downloaded) :
       \E i \in OkTasks : Fname(links[i]) = downloaded[j]
  /\ \A k \in DOMAIN archives : \A j \in 1..Len(archives[k]) :
       LET m == archives[k][j]
       IN /\ m.name \in DOMAIN files
          /\ \E i \in OkTasks : Fname(links[i]) = m.name /\ task[i].body = m.data

\* C8 as stated: every bundled file is the output of a successful download
\* and holds a complete body, whatever the links.
C8_Original == run = 2 /\ pc \in {"bundle", "done"} => BundledFilesComplete

\* C8, amended: the same when no two links map to the same file name.
C8_BundledFilesComplete ==
  run = 2 /\ pc \in {"bundle", "done"} /\ DistinctNames => BundledFilesComplete

\* two URLs with distinct names, one failed and one bundled
C8_Witness ==
  /\ pc = "done"
  /\ DistinctNames
  /\ Len(links) = 2
  /\ Cardinality(FailedTasks) = 1
  /\ DOMAIN archives = {1}
  /\ Len(archives[1]) = 1

\* C9: each link entry gets exactly one download task in an execution and
\* is attempted at most RETRY times in it.
C9_OneTaskPerLink ==
  \A i \in DOMAIN submits : submits[i] <= 1 /\ tries[i] <= RETRY

\* C10: when the fetch stage ends with no successful download, the run
\* ends normally with no archive and no bundles directory.
C10_NoDownloadsNoBundles ==
  run = 2 /\ links # <<>> /\ pc \notin {"main", "submit", "pool", "collect"}
    /\ Cardinality(OkTasks) = 0
    => /\ pc = "done"
       /\ exit = "ok"
       /\ archives = <<>>
       /\ groups = <<>>
       /\ BUNDLE_DIR \notin dirs

\* the second main() ended after every URL exhausted its retries
C10_Witness ==
  /\ run = 2
  /\ pc = "done"
  /\ Len(links) = 2
  /\ Cardinality(FailedTasks) = 2
  /\ exit = "ok"

\* C11: when the link list holds no valid link, both main() return early:
\* no download task is submitted, no file and no archive is written, and
\* the only directory the run makes is the download directory.
C11_NoLinksEarlyReturn ==
  linksFile.exists /\ (\A j \in 1..Len(linksFile.lines) : linksFile.lines[j].kind # "link")
    => /\ pc \in {"main", "done"}
       /\ links = <<>>
       /\ task = <<>>
       /\ files = <<>>
       /\ archives = <<>>
       /\ groups = <<>>
       /\ dirs \subseteq {DOWNLOAD_DIR}
       /\ exit \in {"", "ok"}
       /\ pc = "done" => dirs = {DOWNLOAD_DIR} /\ exit = "ok" /\ run = 2

\* the run is over for a file that holds a comment and a blank line only
C11_Witness ==
  /\ linksFile.exists
  /\ linksFile.lines = <<Comment, Blank>>
  /\ pc = "done"
  /\ dirs = {DOWNLOAD_DIR}

\* C12: when the link-list file is missing the run aborts in the first
\* main() with a non-zero exit: no download task, no attempt, no file and
\* no bundle.
C12_MissingFileAborts ==
  ~linksFile.exists
    => /\ run = 1
       /\ pc \in {"main", "exit"}
       /\ exit = (IF pc = "exit" THEN "exit(1)" ELSE "")
       /\ links = <<>>
       /\ task = <<>>
       /\ files = <<>>
       /\ archives = <<>>
       /\ BUNDLE_DIR \notin dirs

\* the run has aborted on the missing file
C12_Witness ==
  /\ ~linksFile.exists
  /\ pc = "exit"
  /\ exit = "exit(1)"

\* C13: after a fetch stage, with distinct file names, a file exists at a
\* URL's target path if and only if that URL's result is a success: a URL
\* that exhausted its retries leaves no file behind.
C13_FileIffSuccess ==
  FetchOver /\ DistinctNames
    => \A i \in DOMAIN task :
         Fname(links[i]) \in DOMAIN files <=> task[i].st = "ok"

\* C14: the run of a non-empty link list ends with a tally succeeded/total
\* reported: total is the number of links read, succeeded the number of
\* URLs whose result is a success, and succeeded plus the number of URLs
\* reported as failed is total.
C14_FinalTally ==
  pc = "done" /\ links # <<>>
    => /\ out.tally # <<>>
       /\ out.tally[2] = Len(links)
       /\ out.tally[1] = Cardinality(OkTasks)
       /\ out.tally[1] + out.failed[run] = out.tally[2]

\* C15: the wait after failed attempt a, a < RETRY, is 2^a seconds, and
\* there is no other wait: none before attempt 1, none after a success,
\* none after the failed attempt number RETRY.
SleepsDue(t) ==
  IF t.st = "pending" THEN 0
  ELSE IF t.st = "wait" THEN t.attempt
  ELSE t.attempt - 1

C15_BackoffSchedule ==
  \A i \in DOMAIN task :
    /\ task[i].sleeps = [a \in 1..SleepsDue(task[i]) |-> 2 ^ a]
    /\ Len(task[i].sleeps) < RETRY

\* one URL failed RETRY times after waits of 2 and 4 seconds, another
\* succeeded at its second attempt after one wait of 2 seconds
C15_Witness ==
  \E i, j \in DOMAIN task :
    /\ task[i].st = "failed"
    /\ task[i].sleeps = <<2, 4>>
    /\ task[j].st = "ok"
    /\ task[j].sleeps = <<2>>

\* C16: each download task follows Pending -> Attempting ->
\* (Success | RetryWait -> Attempting) -> ... -> (Success | Failed).
\* Success and Failed are absorbing, RetryWait is entered only from a
\* failed attempt that is not the last, Failed only from the failed attempt
\* number RETRY, and Attempting is entered at most RETRY times.
Phase(t) ==
  IF t.st = "pending" THEN "Pending"
  ELSE IF t.st \in {"get", "stream"} THEN "Attempting"
  ELSE IF t.st = "wait" THEN "RetryWait"
  ELSE IF t.st = "ok" THEN "Success"
  ELSE IF t.st = "failed" THEN "Failed"
  ELSE "Other"

TaskStep(t, u) ==
  \/ u = t
  \/ Phase(t) = "Pending" /\ Phase(u) = "Attempting" /\ u.attempt = 1
  \/ Phase(t) = "Attempting" /\ Phase(u) = "Attempting" /\ u.attempt = t.attempt
  \/ Phase(t) = "Attempting" /\ Phase(u) = "Success" /\ u.attempt = t.attempt
  \/ Phase(t) = "Attempting" /\ Phase(u) = "RetryWait" /\ u.attempt = t.attempt
       /\ t.attempt < RETRY
  \/ Phase(t) = "Attempting" /\ Phase(u) = "Failed" /\ u.attempt = t.attempt
       /\ t.attempt = RETRY
  \/ Phase(t) = "RetryWait" /\ Phase(u) = "Attempting" /\ u.attempt = t.attempt + 1

TaskStateOk(t) ==
  /\ Phase(t) # "Other"
  /\ t.attempt <= RETRY
  /\ Phase(t) = "Pending" <=> t.attempt = 0

C16_TaskStateMachine ==
  /\ [](\A i \in DOMAIN task : TaskStateOk(task[i]))
  /\ [][/\ \A i \in DOMAIN task \cap DOMAIN task' : TaskStep(task[i], task'[i])
        /\ \A i \in DOMAIN task' \ DOMAIN task : Phase(task'[i]) = "Pending"]_vars

\* of two tasks one went Attempting, RetryWait, Attempting, Success and the
\* other reached Failed at attempt RETRY
C16_Witness ==
  \E i, j \in DOMAIN task :
    /\ Phase(task[i]) = "Success"
    /\ task[i].attempt = 2
    /\ Phase(task[j]) = "Failed"
    /\ task[j].attempt = RETRY

\* C17: under the fairness of SpecLive every run terminates: the run ends
\* (the last main() returns, or the run aborts on a missing file), every
\* fetch stage that has submitted its tasks returns with every URL in
\* Success or Failed, and a bundling stage that has begun writes all its
\* bundles.
FetchReturned ==
  /\ pc \in {"main", "bundle", "done"}
  /\ DOMAIN task = 1..Len(links)
  /\ \A i \in DOMAIN task : Phase(task[i]) \in {"Success", "Failed"}

BundlingFinished ==
  /\ pc = "done"
  /\ DOMAIN archives = 1..Len(groups)

C17_Terminates ==
  /\ <>(pc \in {"done", "exit"})
  /\ (pc = "pool") ~> FetchReturned
  /\ (pc = "bundle") ~> BundlingFinished

\* a run of more links than workers is over: the URL of the dead server is
\* Failed, the others are Success, and the bundle is written
C17_Witness ==
  /\ pc = "done"
  /\ Len(links) > WORKERS
  /\ Phase(task[1]) = "Failed"
  /\ \A i \in 2..Len(links) : Phase(task[i]) = "Success"
  /\ DOMAIN archives = 1..1

\* C18: a URL keeps one worker slot from its first attempt to its terminal
\* result, backoff waits included, and its retries take no other slot: the
\* URLs between first attempt and terminal result are never more than
\* WORKERS.  A URL waiting in backoff does not stop an attempting URL from
\* taking its step.  A queued URL starts only when fewer than WORKERS URLs
\* hold a slot, which beyond the first WORKERS URLs takes a terminal result.
Holders == {i \in DOMAIN task : Phase(task[i]) \in {"Attempting", "RetryWait"}}

Starts(i) == Phase(task[i]) = "Pending" /\ Phase(task'[i]) # "Pending"

C18_OneSlotPerUrl ==
  /\ [](Cardinality(Holders) <= WORKERS)
  /\ [](\A i, j \in DOMAIN task :
          Phase(task[i]) = "RetryWait" /\ Phase(task[j]) = "Attempting"
            => ENABLED WorkerStep(j))
  /\ [][\A i \in DOMAIN task \cap DOMAIN task' :
          Starts(i) => /\ Cardinality(Holders) < WORKERS
                       /\ Holders' = Holders \cup {i}
                       /\ Cardinality({j \in DOMAIN task : Terminal(task[j])})
                            >= i - WORKERS]_vars

\* every slot is held, one of them by a URL that sleeps between two
\* attempts, while the last URL is still queued
C18_Witness ==
  /\ Cardinality(Holders) = WORKERS
  /\ \E i \in Holders : Phase(task[i]) = "RetryWait"
  /\ \E i \in DOMAIN task : Phase(task[i]) = "Pending"

\* C19 as stated: bundles are numbered 1, 2, 3, ... without gaps and the
\* members of bundle 1, 2, ... read in order are the successful downloads
\* in the order in which they completed.
CompletionNames == [j \in 1..Len(finished) |-> Fname(links[finished[j]])]

NumberedWithoutGaps == DOMAIN archives = 1..Cardinality(DOMAIN archives)

C19_Original ==
  /\ NumberedWithoutGaps
  /\ \A k \in DOMAIN archives : \A j \in 1..Len(archives[k]) :
       archives[k][j].name = CompletionNames[(k - 1) * BUNDLE_SIZE + j]

\* C19 as amended: bundles are numbered 1, 2, 3, ... without gaps and
\* bundle k holds the k-th contiguous chunk of the successful downloads in
\* the order in which main() took them from as_completed: those that had
\* completed when as_completed was called in any order, then the others in
\* the order in which they completed.
Takes(i) == i \in collected' \ collected

Waiting == SelectSeq(finished, LAMBDA i : i \notin collected)

KthChunk(k) ==
  /\ \A j \in 1..Len(archives[k]) :
       archives[k][j].name = downloaded[(k - 1) * BUNDLE_SIZE + j]
  /\ Len(archives[k]) = Min(BUNDLE_SIZE, Len(downloaded) - (k - 1) * BUNDLE_SIZE)

C19_BundlesInReceivedOrder ==
  /\ [](NumberedWithoutGaps /\ \A k \in DOMAIN archives : KthChunk(k))
  /\ [](pc = "done" /\ run = 2
          => Cardinality(DOMAIN archives) = CeilDiv(Len(downloaded), BUNDLE_SIZE))
  /\ [][\A i \in DOMAIN task :
          run = 2 /\ Takes(i) /\ Succeeded(task[i])
            => /\ downloaded' = Append(downloaded, Fname(links[i]))
               /\ \/ i \in pending
                  \/ pending = {} /\ i = Head(Waiting)]_vars

\* three bundles are written and the last two downloads, which had both
\* completed when as_completed was called, were taken in the reverse of
\* the order in which they completed
C19_Witness ==
  /\ pc = "done"
  /\ Cardinality(DOMAIN archives) = 3
  /\ Len(downloaded) >= 2
  /\ downloaded[Len(downloaded)] = CompletionNames[Len(finished) - 1]
  /\ downloaded[Len(downloaded) - 1] = CompletionNames[Len(finished)]

\* C20 as stated: the paths handed to bundling are as many as the URLs
\* recorded as successful, also when several URLs map to one file name:
\* each successful URL contributes its (shared) path once, and the file
\* holds what the last writer wrote.
Occurrences(seq, x) == Cardinality({j \in 1..Len(seq) : seq[j] = x})

OnePathPerSuccess ==
  /\ Len(downloaded) = Cardinality(OkTasks)
  /\ \A n \in {Fname(links[i]) : i \in DOMAIN task} :
       Occurrences(downloaded, n) =
         Cardinality({i \in OkTasks : Fname(links[i]) = n})

HandedToBundling == run = 2 /\ links # <<>> /\ pc \in {"bundle", "done"}

C20_Original ==
  HandedToBundling
    => /\ OnePathPerSuccess
       /\ \A n \in DOMAIN writer :
            task[writer[n].last].st = "ok"
              => files[n] = task[writer[n].last].body

\* C20 as amended: the same, the file holding what the last writer wrote
\* provided no other download has written to it since the last writer
\* opened it.
C20_PathsPerSuccess ==
  HandedToBundling
    => /\ OnePathPerSuccess
       /\ \A n \in DOMAIN writer :
            task[writer[n].last].st = "ok" /\ writer[n].clean
              => files[n] = task[writer[n].last].body

\* two URLs of one file name both succeed with different bodies: the path
\* is handed over twice and the file is the body of the one that opened
\* it last, the other having written nothing since
C20_Witness ==
  /\ HandedToBundling
  /\ Len(links) = 2
  /\ ~DistinctNames
  /\ OkTasks = {1, 2}
  /\ task[1].body # task[2].body
  /\ downloaded = <<Fname(links[1]), Fname(links[1])>>
  /\ writer[Fname(links[1])].clean
  /\ files[Fname(links[1])] = task[writer[Fname(links[1])].last].body
====
